---- MODULE Spec2Model ----
(***************************************************************************)
(* Model of src/app/flask_app.py: a Flask application with one             *)
(* before_request function (app_path) and one view function (index) bound  *)
(* to the URL rule '/'.                                                    *)
(*                                                                         *)
(* Text is modelled as a sequence of chunks (a chunk is a piece of literal *)
(* text), so that concatenation is \o and "contains the substring" is a    *)
(* question about contiguous sub-sequences.  A Python value that reaches   *)
(* an f-string is a record [type, val]: a str carries its text, None       *)
(* carries nothing.  A filesystem path is a record [abs, parts].           *)
(***************************************************************************)
EXTENDS Integers, Sequences, FiniteSets, TLC

\* ------------------------------------------------------------------ bounds
\* Number of requests the listener accepts in one behaviour.
MaxRequests == 2

Requests == 1..MaxRequests

\* ------------------------------------------------------- python values
PyNone == [type |-> "NoneType", val |-> <<>>]

PyStr(text) == [type |-> "str", val |-> text]

\* str(x) as the f-string replacement field {x} applies it: the text of a
\* str, the four letters None for None.
PyFormat(v) == IF v.type = "NoneType" THEN <<"None">> ELSE v.val

\* ------------------------------------------------------------- inputs
\* The request lines the listener parses: <<method, url>>.
RequestLines == {<<"GET", "/">>, <<"GET", "/about">>, <<"POST", "/">>}

HostValues == {<<"example.com">>, <<"test.local">>}

\* A request's headers: a set of <<name, value>> pairs, at most one per name.
HeaderSets == {{}} \cup {{<<"Host", h>>} : h \in HostValues}

\* Directories the process can be in: absolute, normalised paths.
Dirs == {[abs |-> TRUE, parts |-> <<"srv", "app">>], [abs |-> TRUE, parts |-> <<"tmp">>]}

\* The directory the server is started in.
StartDir == [abs |-> TRUE, parts |-> <<"srv", "app">>]

\* The import names Flask(__name__) can be constructed with.
ImportNames == {"__main__", "flask_app"}

\* ------------------------------------------------------------ os.path
RECURSIVE NormParts(_, _)
\* posixpath.normpath over the components: drop "" and ".", let ".." remove
\* the component before it (or vanish at the root of an absolute path).
NormParts(parts, acc) ==
    IF parts = <<>> THEN acc
    ELSE LET c == Head(parts) rest == Tail(parts) IN
         IF c \in {"", "."} THEN NormParts(rest, acc)
         ELSE IF c = ".."
              THEN IF acc # <<>> /\ acc[Len(acc)] # ".."
                   THEN NormParts(rest, SubSeq(acc, 1, Len(acc) - 1))
                   ELSE NormParts(rest, acc)
              ELSE NormParts(rest, Append(acc, c))

\* os.path.abspath(path) with the process in directory cwd: a relative
\* path is joined to cwd, and the result is normalised.
abspath(path, cwdir) ==
    IF path.abs
    THEN [abs |-> TRUE, parts |-> NormParts(path.parts, <<>>)]
    ELSE [abs |-> TRUE, parts |-> NormParts(cwdir.parts \o path.parts, <<>>)]

RECURSIVE JoinParts(_)
JoinParts(parts) ==
    IF parts = <<>> THEN <<>>
    ELSE IF Len(parts) = 1 THEN <<parts[1]>>
    ELSE <<parts[1], "/">> \o JoinParts(Tail(parts))

\* The text of a path as str holds it.
PathStr(path) == PyStr((IF path.abs THEN <<"/">> ELSE <<>>) \o JoinParts(path.parts))

\* ------------------------------------------------------ the f-string
H1Open == "<h1>The host for this page is "

H2Open == "</h1>\n            <h2>The name of this application is "

H3Open == "</h2>\n            <h3>The path of this application on the user's device is "

H3Close == "</h3>"

\* The literal text of the f-string around its three replacement fields.
Template(a, b, c) == <<H1Open>> \o a \o <<H2Open>> \o b \o <<H3Open>> \o c \o <<H3Close>>

IndexBodyHostEmptyForNone(host, appname, path) ==
    Template(IF host.type = "NoneType" THEN <<>> ELSE host.val,
             PyFormat(appname), PyFormat(path))

IndexBodyNameFromHost(host, appname, path) ==
    Template(PyFormat(host), PyFormat(host), PyFormat(path))

IndexBodyHostDropped(host, appname, path) ==
    Template(<<>>, PyFormat(appname), PyFormat(path))

IndexBody(host, appname, path) ==
    Template(PyFormat(host), PyFormat(appname), PyFormat(path))

IndexStatus == 202

\* ------------------------------------------------ framework responses
NotFound == [status |-> 404, body |-> <<"Not Found">>, view |-> "none"]

MethodNotAllowed == [status |-> 405, body |-> <<"Method Not Allowed">>, view |-> "none"]

\* What the listener answers when a before_request or view function raises.
InternalServerError(view) == [status |-> 500, body |-> <<"Internal Server Error">>, view |-> view]

NoResponse == [status |-> 0, body |-> <<>>, view |-> "none"]

\* headers.get(name): the value of the header, None when it is absent.
HeadersGet(headers, name) ==
    IF \E p \in headers : p[1] = name
    THEN PyStr((CHOOSE p \in headers : p[1] = name)[2])
    ELSE PyNone

\* Flask.name: the import name, or the file's base name when run as a script.
AppName(import) == PyStr(<<IF import = "__main__" THEN "flask_app" ELSE import>>)

\* The URL map: the single rule '/' with the default methods of app.route.
RootRule == "/"

RuleMethods == {"GET", "HEAD", "OPTIONS"}

RouteMatchesEveryUrl(method, url) ==
    IF method \notin RuleMethods THEN "MethodNotAllowed" ELSE "index"

Route(method, url) ==
    IF url # RootRule THEN "NotFound"
    ELSE IF method \notin RuleMethods THEN "MethodNotAllowed"
    ELSE "index"

\* The application context a request's g resolves to.
GSharedByAll(r) == 1

GContext(r) == r

\* An application context's g with no attribute set.
EmptyG == [set |-> FALSE, path |-> StartDir]

NoRequest == [method |-> "GET", url |-> "/", headers |-> {}]

\* ------------------------------------------------------------- state
VARIABLES
    import_name,  \* the name the Flask object was constructed with
    cwd,          \* the process's current working directory
    cwd_exists,   \* FALSE once the directory the process is in was removed
    pc,           \* per request: idle, received, prepared, done
    req,          \* per request: method, url, headers
    g,            \* per application context: the attributes of g
    resp,         \* per request: the response handed to the listener
    resolved_in   \* per request: the directory the process was in when
                  \* app_path resolved it (observation only)

vars == <<import_name, cwd, cwd_exists, pc, req, g, resp, resolved_in>>

Init ==
    /\ import_name \in ImportNames
    /\ cwd = StartDir
    /\ cwd_exists = TRUE
    /\ pc = [r \in Requests |-> "idle"]
    /\ req = [r \in Requests |-> NoRequest]
    /\ g = [r \in Requests |-> EmptyG]
    /\ resp = [r \in Requests |-> NoResponse]
    /\ resolved_in = [r \in Requests |-> StartDir]

\* ------------------------------------------------------- environment
\* The listener accepts a request and pushes its contexts.
receive(r, line, headers) ==
    /\ pc[r] = "idle"
    /\ IF r = 1 THEN TRUE ELSE pc[r - 1] # "idle"
    /\ pc' = [pc EXCEPT ![r] = "received"]
    /\ req' = [req EXCEPT ![r] = [method |-> line[1], url |-> line[2], headers |-> headers]]
    /\ g' = [g EXCEPT ![GContext(r)] = EmptyG]
    /\ UNCHANGED <<import_name, cwd, cwd_exists, resp, resolved_in>>

\* The process's working directory changes.
chdir(d) ==
    /\ d # cwd \/ ~cwd_exists
    /\ cwd' = d
    /\ cwd_exists' = TRUE
    /\ UNCHANGED <<import_name, pc, req, g, resp, resolved_in>>

\* The directory the process is in is removed: os.getcwd() raises from now on.
rmdir_cwd ==
    /\ cwd_exists
    /\ cwd_exists' = FALSE
    /\ UNCHANGED <<import_name, cwd, pc, req, g, resp, resolved_in>>

\* ----------------------------------------------------------- app_path
app_path_resolved_at_startup(r) ==
    /\ pc[r] = "received"
    /\ \/ /\ cwd_exists
          /\ g' = [g EXCEPT ![GContext(r)] = [set |-> TRUE, path |-> abspath(StartDir, StartDir)]]
          /\ resolved_in' = [resolved_in EXCEPT ![r] = cwd]
          /\ pc' = [pc EXCEPT ![r] = "prepared"]
          /\ UNCHANGED resp
       \/ /\ ~cwd_exists
          /\ resp' = [resp EXCEPT ![r] = InternalServerError("none")]
          /\ pc' = [pc EXCEPT ![r] = "done"]
          /\ UNCHANGED <<g, resolved_in>>
    /\ UNCHANGED <<import_name, cwd, cwd_exists, req>>

app_path_skips_assignment(r) ==
    /\ pc[r] = "received"
    /\ \/ /\ cwd_exists
          /\ resolved_in' = [resolved_in EXCEPT ![r] = cwd]
          /\ pc' = [pc EXCEPT ![r] = "prepared"]
          /\ UNCHANGED <<g, resp>>
       \/ /\ ~cwd_exists
          /\ resp' = [resp EXCEPT ![r] = InternalServerError("none")]
          /\ pc' = [pc EXCEPT ![r] = "done"]
          /\ UNCHANGED <<g, resolved_in>>
    /\ UNCHANGED <<import_name, cwd, cwd_exists, req>>

app_path_swallows_error(r) ==
    /\ pc[r] = "received"
    /\ \/ /\ cwd_exists
          /\ g' = [g EXCEPT ![GContext(r)] = [set |-> TRUE, path |-> abspath(cwd, cwd)]]
          /\ resolved_in' = [resolved_in EXCEPT ![r] = cwd]
       \/ /\ ~cwd_exists
          /\ g' = [g EXCEPT ![GContext(r)] = [set |-> TRUE, path |-> abspath(StartDir, StartDir)]]
          /\ UNCHANGED resolved_in
    /\ pc' = [pc EXCEPT ![r] = "prepared"]
    /\ UNCHANGED <<import_name, cwd, cwd_exists, req, resp>>

app_path_changes_directory(r) ==
    /\ pc[r] = "received"
    /\ \/ /\ cwd_exists
          /\ g' = [g EXCEPT ![GContext(r)] = [set |-> TRUE, path |-> abspath(cwd, cwd)]]
          /\ resolved_in' = [resolved_in EXCEPT ![r] = cwd]
          /\ pc' = [pc EXCEPT ![r] = "prepared"]
          /\ cwd' = StartDir
          /\ UNCHANGED resp
       \/ /\ ~cwd_exists
          /\ resp' = [resp EXCEPT ![r] = InternalServerError("none")]
          /\ pc' = [pc EXCEPT ![r] = "done"]
          /\ UNCHANGED <<g, resolved_in, cwd>>
    /\ UNCHANGED <<import_name, cwd_exists, req>>

\* The before_request function: g.path = os.path.abspath(os.getcwd()).
\* os.getcwd() raises when the directory is gone; nothing catches it, and
\* the listener answers the request with its server-error response.
app_path(r) ==
    /\ pc[r] = "received"
    /\ \/ /\ cwd_exists
          /\ g' = [g EXCEPT ![GContext(r)] = [set |-> TRUE, path |-> abspath(cwd, cwd)]]
          /\ resolved_in' = [resolved_in EXCEPT ![r] = cwd]
          /\ pc' = [pc EXCEPT ![r] = "prepared"]
          /\ UNCHANGED resp
       \/ /\ ~cwd_exists
          /\ resp' = [resp EXCEPT ![r] = InternalServerError("none")]
          /\ pc' = [pc EXCEPT ![r] = "done"]
          /\ UNCHANGED <<g, resolved_in>>
    /\ UNCHANGED <<import_name, cwd, cwd_exists, req>>

\* -------------------------------------------------------------- index
\* What index returns in application context ctx: the body and 202, or the
\* server-error response when g has no path attribute (AttributeError).
IndexReturnsDefaultStatus(headers, import, ctx) ==
    IF ctx.set
    THEN [status |-> 200,
          body |-> IndexBody(HeadersGet(headers, "Host"), AppName(import), PathStr(ctx.path)),
          view |-> "index"]
    ELSE InternalServerError("index")

IndexReturn(headers, import, ctx) ==
    IF ctx.set
    THEN [status |-> IndexStatus,
          body |-> IndexBody(HeadersGet(headers, "Host"), AppName(import), PathStr(ctx.path)),
          view |-> "index"]
    ELSE InternalServerError("index")

\* The view function, called when the request matches the rule '/'.  The
\* application context is popped once the response is made.
index(r) ==
    /\ pc[r] = "prepared"
    /\ Route(req[r].method, req[r].url) = "index"
    /\ resp' = [resp EXCEPT ![r] = IndexReturn(req[r].headers, import_name, g[GContext(r)])]
    /\ pc' = [pc EXCEPT ![r] = "done"]
    /\ g' = [g EXCEPT ![GContext(r)] = EmptyG]
    /\ UNCHANGED <<import_name, cwd, cwd_exists, req, resolved_in>>

\* The request matches no rule: the routing exception is raised after the
\* before_request functions ran, and the listener answers 404.
not_found(r) ==
    /\ pc[r] = "prepared"
    /\ Route(req[r].method, req[r].url) = "NotFound"
    /\ resp' = [resp EXCEPT ![r] = NotFound]
    /\ pc' = [pc EXCEPT ![r] = "done"]
    /\ g' = [g EXCEPT ![GContext(r)] = EmptyG]
    /\ UNCHANGED <<import_name, cwd, cwd_exists, req, resolved_in>>

\* The request matches the rule but not its methods: the listener answers 405.
method_not_allowed(r) ==
    /\ pc[r] = "prepared"
    /\ Route(req[r].method, req[r].url) = "MethodNotAllowed"
    /\ resp' = [resp EXCEPT ![r] = MethodNotAllowed]
    /\ pc' = [pc EXCEPT ![r] = "done"]
    /\ g' = [g EXCEPT ![GContext(r)] = EmptyG]
    /\ UNCHANGED <<import_name, cwd, cwd_exists, req, resolved_in>>

Next ==
    \/ \E r \in Requests, l \in RequestLines, h \in HeaderSets : receive(r, l, h)
    \/ \E d \in Dirs : chdir(d)
    \/ rmdir_cwd
    \/ \E r \in Requests : app_path(r)
    \/ \E r \in Requests : index(r)
    \/ \E r \in Requests : not_found(r)
    \/ \E r \in Requests : method_not_allowed(r)

Spec == Init /\ [][Next]_vars

\* ======================================================= reading a body
\* body has the chunks of s, in order and contiguous, somewhere in it.
Contains(body, s) ==
    \E i \in 0..(Len(body) - Len(s)) : SubSeq(body, i + 1, i + Len(s)) = s

\* The chunks of body between the first chunk open and the first chunk
\* close after it; <<"?">> when body has no such pair.
Between(body, open, close) ==
    IF \E i \in 1..Len(body) : \E j \in (i + 1)..Len(body) : body[i] = open /\ body[j] = close
    THEN LET i == CHOOSE k \in 1..Len(body) :
                      body[k] = open /\ \A m \in 1..(k - 1) : body[m] # open
             j == CHOOSE k \in (i + 1)..Len(body) :
                      body[k] = close /\ \A m \in (i + 1)..(k - 1) : body[m] # close
         IN SubSeq(body, i + 1, j - 1)
    ELSE <<"?">>

\* The request has been answered, and index made the answer.
AnsweredByIndex(r) == pc[r] = "done" /\ resp[r].view = "index"

HasHost(r) == \E p \in req[r].headers : p[1] = "Host"

HostOf(r) == (CHOOSE p \in req[r].headers : p[1] = "Host")[2]

\* The text of an absolute directory, spelled out.
DirText(d) == <<"/">> \o JoinParts(d.parts)

\* ================================================================ C1
\* C1: every answered request GET / has a status other than 200, and the
\* answer index makes to it has status 202, whatever its headers and
\* whatever the working directory is.
C1_StatusIs202 ==
    \A r \in Requests :
        (pc[r] = "done" /\ req[r].method = "GET" /\ req[r].url = "/")
            => /\ resp[r].status # 200
               /\ resp[r].view = "index" => resp[r].status = 202

C1_Witness ==
    \E r \in Requests :
        /\ AnsweredByIndex(r) /\ req[r].method = "GET" /\ req[r].url = "/"
        /\ resp[r].status = 202
        /\ HasHost(r)
        /\ resolved_in[r] # StartDir

\* ================================================================ C2
\* C2: the body index returns for a request with the header Host: h has
\* the text 'The host for this page is ' followed by exactly h, up to the
\* closing of the heading.
C2_HostEchoed ==
    \A r \in Requests :
        (AnsweredByIndex(r) /\ HasHost(r))
            => /\ Contains(resp[r].body, <<H1Open>> \o HostOf(r) \o <<H2Open>>)
               /\ Between(resp[r].body, H1Open, H2Open) = HostOf(r)

C2_Witness ==
    \E r \in Requests :
        /\ AnsweredByIndex(r)
        /\ HasHost(r) /\ HostOf(r) = <<"example.com">>
        /\ Contains(resp[r].body, <<H1Open, "example.com">>)

\* ================================================================ C3
\* C3 as stated: the answer index makes to a request with no Host header
\* is its normal 202 response, with nothing between 'The host for this
\* page is ' and the closing of the heading.
C3_HostEmptyWhenAbsent ==
    \A r \in Requests :
        (AnsweredByIndex(r) /\ ~HasHost(r))
            => /\ resp[r].status = 202
               /\ Between(resp[r].body, H1Open, H2Open) = <<>>

\* C3 amended: the answer index makes to a request with no Host header is
\* its normal 202 response, and the host placeholder holds the text None.
C3_HostNoneWhenAbsent ==
    \A r \in Requests :
        (AnsweredByIndex(r) /\ ~HasHost(r))
            => /\ resp[r].status = 202
               /\ Between(resp[r].body, H1Open, H2Open) = <<"None">>

C3_Witness ==
    \E r \in Requests :
        /\ AnsweredByIndex(r) /\ ~HasHost(r)
        /\ resp[r].status = 202
        /\ Contains(resp[r].body, <<H1Open, "None", H2Open>>)

\* ================================================================ C4
\* C4: in every body index returns, the text after 'The name of this
\* application is ' is the name the application got at startup, so it is
\* the same in any two responses whatever their requests hold.
C4_AppNameFixed ==
    /\ \A r \in Requests :
           AnsweredByIndex(r)
               => Between(resp[r].body, H2Open, H3Open)
                      = <<IF import_name = "__main__" THEN "flask_app" ELSE import_name>>
    /\ \A r1, r2 \in Requests :
           (AnsweredByIndex(r1) /\ AnsweredByIndex(r2))
               => Between(resp[r1].body, H2Open, H3Open)
                      = Between(resp[r2].body, H2Open, H3Open)

C4_Witness ==
    \E r1, r2 \in Requests :
        /\ AnsweredByIndex(r1) /\ AnsweredByIndex(r2)
        /\ req[r1].headers # req[r2].headers
        /\ HasHost(r1)
        /\ Contains(resp[r1].body, <<H2Open, "flask_app", H3Open>>)
        /\ Contains(resp[r2].body, <<H2Open, "flask_app", H3Open>>)

\* ================================================================ C5
\* C5: in every body index returns, the text after 'The path of this
\* application on the user's device is ' is the absolute path of the
\* directory the process was in when app_path resolved it for that very
\* request; a directory resolved for an earlier request never shows.
C5_PathIsCwdOfRequest ==
    \A r \in Requests :
        AnsweredByIndex(r)
            => Between(resp[r].body, H3Open, H3Close) = DirText(resolved_in[r])

\* Two answered requests with a change of directory between them: the
\* later one shows the directory the process is in now.
C5_Witness ==
    \E r1, r2 \in Requests :
        /\ r1 < r2
        /\ AnsweredByIndex(r1) /\ AnsweredByIndex(r2)
        /\ Between(resp[r1].body, H3Open, H3Close) = <<"/", "srv", "/", "app">>
        /\ Between(resp[r2].body, H3Open, H3Close) = <<"/", "tmp">>
        /\ cwd_exists /\ cwd.parts = <<"tmp">>

\* ================================================================ C6
\* C6: a request to a url other than / is never answered by index: its
\* answer is the listener's 404 or 500 response, not status 202, and has
\* none of the text of the f-string.
C6_OtherUrlsNotIndex ==
    \A r \in Requests :
        (pc[r] = "done" /\ req[r].url # "/")
            => /\ resp[r].view # "index"
               /\ resp[r].status \in {404, 500}
               /\ ~Contains(resp[r].body, <<H1Open>>)
               /\ ~Contains(resp[r].body, <<H2Open>>)

C6_Witness ==
    \E r \in Requests :
        /\ pc[r] = "done" /\ req[r].url = "/about"
        /\ resp[r].status = 404
        /\ cwd_exists

\* ================================================================ C7
\* C7: a request that has reached the view function has been through
\* app_path: its g holds a path whenever index can run, and index never
\* fails for want of g.path.
C7_PathSetBeforeIndex ==
    \A r \in Requests :
        /\ pc[r] = "prepared" => g[GContext(r)].set
        /\ AnsweredByIndex(r) => resp[r].status # 500

C7_Witness ==
    \E r1, r2 \in Requests :
        /\ AnsweredByIndex(r1) /\ resp[r1].status = 202
        /\ pc[r2] = "prepared" /\ g[GContext(r2)].set
        /\ req[r2].url = "/"

\* ================================================================ C8
\* C8: when the working directory cannot be resolved, the step of app_path
\* ends the request with the listener's 500 response, index not having
\* run; an answered request is never taken up again; and a request that
\* got through app_path and matches the rule gets the 202 of index,
\* whatever happened to the requests before it.
C8_Step(r) ==
    /\ (pc[r] = "received" /\ ~cwd_exists /\ pc'[r] # pc[r])
           => /\ pc'[r] = "done"
              /\ resp'[r].status = 500
              /\ resp'[r].view = "none"
              /\ ~Contains(resp'[r].body, <<H1Open>>)
    /\ pc[r] = "done" => (pc'[r] = "done" /\ resp'[r] = resp[r])
    /\ (pc[r] = "prepared" /\ pc'[r] = "done" /\ req[r].method = "GET" /\ req[r].url = "/")
           => (resp'[r].status = 202 /\ resp'[r].view = "index")

\* C8: every step treats a failed resolution, an answered request and a
\* prepared request as C8_Step says.
C8_FailureIs500 == [][\A r \in Requests : C8_Step(r)]_vars

\* A request that failed with 500, and a later one served by index.
C8_Witness ==
    \E r1, r2 \in Requests :
        /\ r1 < r2
        /\ pc[r1] = "done" /\ resp[r1].status = 500 /\ resp[r1].view = "none"
        /\ req[r1].method = "GET" /\ req[r1].url = "/"
        /\ AnsweredByIndex(r2) /\ resp[r2].status = 202

\* ================================================================ C9
\* C9: under any interleaving, a request between app_path and index finds
\* in its g the path resolved for it, and the body index returns for it
\* has its own Host header and its own resolved path.
C9_RequestsIsolated ==
    \A r \in Requests :
        /\ pc[r] = "prepared"
               => /\ g[GContext(r)].set
                  /\ g[GContext(r)].path = resolved_in[r]
        /\ AnsweredByIndex(r)
               => /\ resp[r].status = 202
                  /\ Between(resp[r].body, H1Open, H2Open)
                         = (IF HasHost(r) THEN HostOf(r) ELSE <<"None">>)
                  /\ Between(resp[r].body, H3Open, H3Close) = DirText(resolved_in[r])

\* Request 2 was served from start to end while request 1 was between
\* app_path and index, with another host and another directory.
C9_Witness ==
    \E r1, r2 \in Requests :
        /\ r1 < r2
        /\ pc[r1] = "prepared" /\ req[r1].url = "/" /\ req[r1].method = "GET"
        /\ AnsweredByIndex(r2)
        /\ HasHost(r1) /\ HasHost(r2) /\ HostOf(r1) # HostOf(r2)
        /\ resolved_in[r1] # resolved_in[r2]
        /\ g[GContext(r1)].path = resolved_in[r1]

\* =============================================================== C10
\* C10: a step that serves a request (app_path, index, or the listener's
\* answer) leaves the application's name, the working directory, every
\* request's method, url and headers, and every other request's context
\* and response as they were.
ServeStep(r) == pc[r] \in {"received", "prepared"} /\ pc'[r] # pc[r]

C10_Frame(r) ==
    ServeStep(r)
        => /\ import_name' = import_name
           /\ cwd' = cwd
           /\ cwd_exists' = cwd_exists
           /\ req' = req
           /\ \A q \in Requests \ {r} :
                  /\ g'[GContext(q)] = g[GContext(q)]
                  /\ resp'[q] = resp[q]
                  /\ pc'[q] = pc[q]

\* C10: every step that serves a request leaves everything else alone.
C10_ServingChangesNothingElse == [][\A r \in Requests : C10_Frame(r)]_vars

\* A request served in another directory than the one the server started
\* in, the process still being there.
C10_Witness ==
    \E r \in Requests :
        /\ AnsweredByIndex(r) /\ resp[r].status = 202
        /\ resolved_in[r] # StartDir
        /\ cwd = resolved_in[r] /\ cwd_exists
        /\ HasHost(r)

====
